---- MODULE Spec2Model ----
\* A model of WebsiteCrawler (src/crawler.py): one crawler object, its
\* configuration, its three collections (visited_urls, pages, url_queue) and
\* the control flow of crawl / crawl_worker / process_page.  The network and
\* the HTML parsers are the environment: every request draws its outcome and
\* its duration from small sets.
EXTENDS Integers, Sequences, FiniteSets, TLC

\* ---------------------------------------------------------------- bounds
MaxDepthBound == 3      \* max_depth is drawn from 1..MaxDepthBound
MaxPagesBound == 4      \* max_pages is drawn from 1..MaxPagesBound
MaxTimeout    == 1      \* timeout is 0 or MaxTimeout
MaxDelay      == 1      \* request_delay is 0 or MaxDelay
MaxFetchTime  == 1      \* the requests of one process_page call last 0 or MaxFetchTime
MaxCalls      == 2      \* calls of crawl on one object in ReuseSpec
ReuseDepthBound == 2    \* max_depth is drawn from 1..ReuseDepthBound in ReuseSpec
ReusePagesBound == 2    \* max_pages is drawn from 1..ReusePagesBound in ReuseSpec
MaxExtraLinks == 2      \* a big page has up to LinkCeiling + MaxExtraLinks new links
NumWorkers    == 2      \* threads running the link loop of process_page in ThreadSpec

\* ------------------------------------------------------ program constants
LinkCeiling == 50       \* "if link_count >= 50: break"

\* ------------------------------------------------------------------ URLs
\* A URL is kept in the parsed form urlparse gives: scheme, netloc, path,
\* query, fragment.  A path is the sequence of its segments after the
\* leading "/": "" is <<>>, "/" is <<"">>, "/d/p3" is <<"d","p3">>.
URL(s, n, p, q, f) ==
    [scheme |-> s, netloc |-> n, path |-> p, query |-> q, fragment |-> f]

\* An href as written in an anchor: a URL reference.  rooted tells "/p" from
\* "p" when the reference has no netloc.
Href(s, n, p, q, f, r) ==
    [scheme |-> s, netloc |-> n, path |-> p, query |-> q, fragment |-> f,
     rooted |-> r]

Front(s) == SubSeq(s, 1, Len(s) - 1)

\* urllib.parse.urljoin(base, href), for references without dot segments.
urljoin(base, h) ==
    IF h.scheme # "" /\ h.scheme # base.scheme
    THEN URL(h.scheme, h.netloc, h.path, h.query, h.fragment)
    ELSE IF h.netloc # ""
    THEN URL(base.scheme, h.netloc, h.path, h.query, h.fragment)
    ELSE IF h.path = <<>> /\ ~h.rooted
    THEN URL(base.scheme, base.netloc, base.path,
             IF h.query # "" THEN h.query ELSE base.query, h.fragment)
    ELSE IF h.rooted
    THEN URL(base.scheme, base.netloc, h.path, h.query, h.fragment)
    ELSE URL(base.scheme, base.netloc,
             (IF base.path = <<>> THEN <<>> ELSE Front(base.path)) \o h.path,
             h.query, h.fragment)

is_valid_url_anyhost(url, base_domain) ==
    url.netloc # ""

\* is_valid_url(url, base_domain)
is_valid_url(url, base_domain) ==
    url.netloc # "" /\ url.netloc = base_domain.netloc

\* clean_url = f"{scheme}://{netloc}{path}": query and fragment are dropped.
clean_url(u) == URL(u.scheme, u.netloc, u.path, "", "")

\* extract_links(base_url, html_content) over the anchors of the page, in
\* document order.
RECURSIVE extract_links(_, _)
extract_links(base_url, anchors) ==
    IF anchors = <<>> THEN <<>>
    ELSE LET full_url == urljoin(base_url, Head(anchors))
             rest     == extract_links(base_url, Tail(anchors))
         IN  IF is_valid_url(full_url, base_url)
             THEN <<clean_url(full_url)>> \o rest
             ELSE rest

\* ------------------------------------------------------------- the site
\* What the server at a.com answers: the anchors of the page at each path
\* (the server ignores the query; a fragment is never sent).
SeedHost  == "a.com"
OtherHost == "b.org"

\* Pages with about LinkCeiling anchors, for CeilingSpec: the page /big/k
\* links to itself and then to k pages /n/1 .. /n/k.
BigSizes == (LinkCeiling - 1)..(LinkCeiling + MaxExtraLinks)

BigURL(k) == URL("http", SeedHost, <<"big", ToString(k)>>, "", "")

BigSeeds == { BigURL(k) : k \in BigSizes }

BigAnchors(k) ==
    << Href("", "", <<"big", ToString(k)>>, "", "", TRUE) >> \o
    [i \in 1..k |-> Href("", "", <<"n", ToString(i)>>, "", "", TRUE)]

Anchors(u) ==
    IF u.path = <<"">> THEN
        << Href("", "", <<"p1">>, "", "", TRUE),               \* /p1
           Href("", "", <<"p2">>, "x=1", "", FALSE),           \* p2?x=1
           Href("http", OtherHost, <<"x">>, "", "", TRUE),     \* http://b.org/x
           Href("", "", <<"p1">>, "", "top", TRUE),            \* /p1#top
           Href("mailto", "", <<>>, "", "", FALSE) >>          \* mailto:
    ELSE IF u.path = <<"p1">> THEN
        << Href("", "", <<"p2">>, "", "", TRUE),               \* /p2
           Href("", "", <<"">>, "", "", TRUE) >>               \* /
    ELSE IF u.path = <<"p2">> THEN
        << Href("", "", <<"p1">>, "", "", TRUE),               \* /p1
           Href("", OtherHost, <<"y">>, "", "", TRUE) >>       \* //b.org/y
    ELSE IF u.path = <<"d", "p3">> THEN
        << Href("", "", <<"p4">>, "", "", FALSE) >>            \* p4
    ELSE IF u.path = <<"s">> THEN
        << Href("", "", <<"s">>, "x=1", "", TRUE),             \* /s?x=1
           Href("", "", <<"d", "p3">>, "", "", TRUE) >>        \* /d/p3
    ELSE IF Len(u.path) = 2 /\ u.path[1] = "big" THEN
        BigAnchors(CHOOSE k \in BigSizes : u.path[2] = ToString(k))
    ELSE <<>>

\* the paths of the site: the canonical URLs of a.com a link can lead to
SitePaths ==
    { <<"">>, <<"p1">>, <<"p2">>, <<"d", "p3">>, <<"p4">>, <<"d", "p4">>,
      <<"s">>, <<"leaf">> }

SiteURLs == { URL("http", SeedHost, p, "", "") : p \in SitePaths }

Seeds ==
    { URL("http", SeedHost, <<"">>, "", ""),          \* http://a.com/
      URL("http", SeedHost, <<"leaf">>, "", ""),      \* http://a.com/leaf
      URL("http", SeedHost, <<"s">>, "x=1", "") }     \* http://a.com/s?x=1

\* ------------------------------------------------- requests and parsing
NoneVal == "<None>"

\* The documents a response can carry, as the parsers see them: what
\* trafilatura.extract and soup.get_text give, the title tag, and which of
\* the parsers raise on it.
GoodHtml  == [has_title |-> TRUE, title |-> "Page Title",
              trafilatura |-> "page text", soup_text |-> "page text",
              text_raises |-> FALSE, title_raises |-> FALSE,
              links_raise |-> FALSE]
BlankHtml == [has_title |-> FALSE, title |-> "",
              trafilatura |-> NoneVal, soup_text |-> "",
              text_raises |-> FALSE, title_raises |-> FALSE,
              links_raise |-> FALSE]
SoupHtml  == [has_title |-> TRUE, title |-> "",
              trafilatura |-> NoneVal, soup_text |-> "visible text",
              text_raises |-> FALSE, title_raises |-> FALSE,
              links_raise |-> FALSE]
BadTitleHtml == [GoodHtml EXCEPT !.title_raises = TRUE]
BadLinksHtml == [GoodHtml EXCEPT !.text_raises = TRUE, !.links_raise = TRUE]

\* What one call of process_page meets: the exception of the first request,
\* the exception of the retry (read only after an SSLError), the document.
Outcome(first, retry, html) == [first |-> first, retry |-> retry, html |-> html]

Outcomes ==
    { Outcome("none", "none", GoodHtml),
      Outcome("none", "none", BlankHtml),
      Outcome("none", "none", SoupHtml),
      Outcome("none", "none", BadTitleHtml),
      Outcome("none", "none", BadLinksHtml),
      Outcome("ConnectionError", "none", GoodHtml),
      Outcome("SSLError", "none", GoodHtml),
      Outcome("SSLError", "ConnectionError", GoodHtml),
      Outcome("SSLError", "SSLError", GoodHtml) }

extract_text_content_nofallback(html) ==
    IF html.text_raises THEN ""
    ELSE IF html.trafilatura = NoneVal THEN "" ELSE html.trafilatura

\* extract_text_content(url, html_content): an exception of either
\* strategy is logged and "" is returned.
extract_text_content(html) ==
    IF html.text_raises THEN ""
    ELSE IF html.trafilatura = NoneVal THEN html.soup_text
    ELSE html.trafilatura

\* _extract_title(html_content)
extract_title(html) == IF html.has_title THEN html.title ELSE "No Title"

\* python's "a or b" on strings
OrElse(a, b) == IF a = "" THEN b ELSE a

\* ----------------------------------------------------------------- state
VARIABLES
    max_depth, max_pages, request_delay, timeout,   \* __init__ arguments
    visited_urls,     \* self.visited_urls
    pages,            \* self.pages
    url_queue,        \* self.url_queue: FIFO of (url, depth, base_url)
    pc,               \* where crawl() stands
    start_url,        \* the argument of the running crawl
    start_time,       \* start_time = time.time()
    now,              \* the wall clock
    timed_out,        \* the "Crawling timed out" branch was taken
    fetch_log,        \* one entry per call of process_page that sent a request
    enq_log,          \* every item ever put on url_queue by this crawl
    result,           \* what crawl() returned
    calls,            \* how many times crawl was called on this object
    stale,            \* the frontier held items when crawl was last called
    lock,             \* self.lock: 0 when free, else the thread holding it
    workers           \* per thread: its position in the link loop of process_page

vars == << max_depth, max_pages, request_delay, timeout, visited_urls, pages,
           url_queue, pc, start_url, start_time, now, timed_out, fetch_log,
           enq_log, result, calls, stale, lock, workers >>

config == << max_depth, max_pages, request_delay, timeout >>

Item_ownbase(url, depth, base_url) == [url |-> url, depth |-> depth, base_url |-> url]

\* a work item: the tuple (url, depth, base_url) put on url_queue
Item(url, depth, base_url) == [url |-> url, depth |-> depth, base_url |-> base_url]

PageRecord(url, title, content) == [url |-> url, title |-> title, content |-> content]

\* --------------------------------------------------------- process_page
DepthAllowsLinks_inclusive(depth) == depth <= max_depth

DepthAllowsLinks_early(depth) == depth < max_depth - 1

\* "if depth < self.max_depth"
DepthAllowsLinks(depth) == depth < max_depth

LockedCheck_skip(link, visited) == TRUE

\* "if link not in self.visited_urls", evaluated while holding self.lock
LockedCheck(link, visited) == link \notin visited

OuterCheck_nocap(link, visited, npages) == link \notin visited

\* "if link not in self.visited_urls and len(self.pages) < self.max_pages",
\* evaluated without the lock
OuterCheck(link, visited, npages) == link \notin visited /\ npages < max_pages

MayEnqueue_nocap(link, visited, npages) == link \notin visited

\* "if link not in self.visited_urls and len(self.pages) < self.max_pages",
\* then, under the lock, "if link not in self.visited_urls"
MayEnqueue(link, visited, npages) ==
    /\ OuterCheck(link, visited, npages)
    /\ LockedCheck(link, visited)

QueuePut_front(q, item) == << item >> \o q

\* "self.url_queue.put(...)" on queue.Queue: the item goes to the tail, and
\* get takes the head
QueuePut(q, item) == Append(q, item)

CeilingReached_never(link_count) == FALSE

\* "if link_count >= 50: break"
CeilingReached(link_count) == link_count >= LinkCeiling

\* The loop over the extracted links.  st carries visited_urls, url_queue
\* and enq_log.
RECURSIVE AddLinks(_, _, _, _, _, _)
AddLinks(links, link_count, st, depth, base_url, npages) ==
    IF links = <<>> \/ CeilingReached(link_count) THEN st
    ELSE LET link == Head(links)
         IN  IF MayEnqueue(link, st.visited, npages)
             THEN AddLinks(Tail(links), link_count + 1,
                           [visited |-> st.visited \cup {link},
                            queue   |-> QueuePut(st.queue, Item(link, depth + 1, base_url)),
                            enq     |-> Append(st.enq, Item(link, depth + 1, base_url))],
                           depth, base_url, npages)
             ELSE AddLinks(Tail(links), link_count, st, depth, base_url, npages)

Fetch_retryloop(o) ==
    IF o.first = "none"
    THEN [status |-> "response", requests |-> 1, error |-> "none"]
    ELSE IF o.first = "SSLError"
    THEN IF o.retry = "none"
         THEN [status |-> "response", requests |-> 2, error |-> "none"]
         ELSE IF o.retry = "SSLError"
         THEN [status |-> "raised", requests |-> 3, error |-> o.retry]
         ELSE [status |-> "raised", requests |-> 2, error |-> o.retry]
    ELSE [status |-> "returned", requests |-> 1, error |-> o.first]

Fetch_swallow(o) ==
    [status |-> "response", requests |-> IF o.first = "SSLError" THEN 2 ELSE 1,
     error |-> "none"]

\* The two requests of process_page.  status is "response" when a response
\* was obtained, "returned" when the RequestException handler returned, and
\* "raised" when the exception of the retry left the inner try statement.
Fetch(o) ==
    IF o.first = "none"
    THEN [status |-> "response", requests |-> 1, error |-> "none"]
    ELSE IF o.first = "SSLError"
    THEN IF o.retry = "none"
         THEN [status |-> "response", requests |-> 2, error |-> "none"]
         ELSE [status |-> "raised", requests |-> 2, error |-> o.retry]
    ELSE [status |-> "returned", requests |-> 1, error |-> o.first]

PageContent_raw(text_content) == text_content

\* "content = text_content or f'Unable to extract text content from {url}'"
PageContent(text_content) ==
    OrElse(text_content, "Unable to extract text content from {url}")

\* "title = self._extract_title(response.text) or 'Untitled Page'"
PageTitle(html) == OrElse(extract_title(html), "Untitled Page")

IsException_requests(error) == error \in {"SSLError", "ConnectionError"}

\* what an "except Exception" clause catches: the errors of requests and
\* the errors of the parsers are all subclasses of Exception
IsException(error) == error \in {"SSLError", "ConnectionError", "Exception"}

\* "except Exception" of process_page: the error leaves the function only
\* when the clause does not catch it.
Escapes(error) == error # "none" /\ ~IsException(error)

\* process_page(url, depth, base_url) on the state st = (pages, visited,
\* queue, enq), meeting outcome o.  sent: a request was issued.
process_page(url, depth, base_url, o, st) ==
    LET same(sent, reqs, err) ==
            [pages |-> st.pages, visited |-> st.visited, queue |-> st.queue,
             enq |-> st.enq, sent |-> sent, requests |-> reqs,
             raised |-> IF Escapes(err) THEN err ELSE "none"]
        f == Fetch(o)
    IN  IF Len(st.pages) >= max_pages THEN same(FALSE, 0, "none")
        ELSE IF f.status # "response" THEN same(TRUE, f.requests, f.error)
        ELSE IF o.html.title_raises THEN same(TRUE, f.requests, "Exception")
        ELSE
          LET rec == PageRecord(url, PageTitle(o.html),
                                PageContent(extract_text_content(o.html)))
              pages1 == Append(st.pages, rec)
              st0 == [visited |-> st.visited, queue |-> st.queue, enq |-> st.enq]
              st1 == IF DepthAllowsLinks(depth) /\ ~o.html.links_raise
                     THEN AddLinks(extract_links(base_url, Anchors(url)), 0,
                                   st0, depth, base_url, Len(pages1))
                     ELSE st0
          IN  [pages |-> pages1, visited |-> st1.visited, queue |-> st1.queue,
               enq |-> st1.enq, sent |-> TRUE, requests |-> f.requests,
               raised |-> "none"]

FetchEntry(item, o, r, at, ended) ==
    [url |-> item.url, depth |-> item.depth, base_url |-> item.base_url,
     at |-> at, ended |-> ended, requests |-> r.requests, outcome |-> o]

\* ---------------------------------------------------------------- crawl
FinalPages_nofallback(ps, start) == ps

FinalPages_canonical(ps, start) ==
    IF ps = <<>>
    THEN << PageRecord(clean_url(start), "No content found",
                       "No content could be extracted from this website.") >>
    ELSE ps

\* "if not self.pages: self.pages.append({... 'No content found' ...})"
FinalPages(ps, start) ==
    IF ps = <<>>
    THEN << PageRecord(start, "No content found",
                       "No content could be extracted from this website.") >>
    ELSE ps

\* the record of the "except Exception" around the seed's process_page
FailedRecord(start) ==
    PageRecord(start, "Failed to load page", "Unable to crawl this page. Error: {e}")

CrawlLoopCond_nocap == url_queue # <<>>

\* "while not self.url_queue.empty() and len(self.pages) < self.max_pages"
\* of crawl
CrawlLoopCond == url_queue # <<>> /\ Len(pages) < max_pages

\* the same condition at the head of crawl_worker's loop
WorkerLoopCond == url_queue # <<>> /\ Len(pages) < max_pages

CrawlReset_keep(u) ==
    [visited |-> visited_urls \cup {u}, pages |-> pages,
     queue |-> Append(url_queue, Item(u, 1, u))]

CrawlReset_unmarked(u) ==
    [visited |-> {}, pages |-> <<>>, queue |-> << Item(u, 1, u) >>]

\* the three collections as crawl(start_url) sets them before its loop
CrawlReset(u) ==
    [visited |-> {u}, pages |-> <<>>, queue |-> << Item(u, 1, u) >>]

\* the threads of ThreadSpec; in a crawl of Spec none of them runs
Workers == 1..NumWorkers

NoWorker == [pc |-> "end", depth |-> 0, links |-> <<>>, link_count |-> 0]

\* the object after __init__, with max_pages drawn from caps
InitWith(caps) ==
    /\ max_depth \in 1..MaxDepthBound
    /\ max_pages \in caps
    /\ request_delay \in {0, MaxDelay}
    /\ timeout \in {0, MaxTimeout}
    /\ visited_urls = {}
    /\ pages = <<>>
    /\ url_queue = <<>>
    /\ pc = "idle"
    /\ start_url = CHOOSE u \in Seeds : TRUE
    /\ start_time = 0
    /\ now = 0
    /\ timed_out = FALSE
    /\ fetch_log = <<>>
    /\ enq_log = <<>>
    /\ result = <<>>
    /\ calls = 0
    /\ stale = FALSE
    /\ lock = 0
    /\ workers = [w \in Workers |-> NoWorker]

Init == InitWith(1..MaxPagesBound)

\* crawl(start_url), up to "start_time = time.time()"
CrawlBegin(seeds) ==
    /\ \E u \in seeds :
        /\ start_url' = u
        /\ visited_urls' = CrawlReset(u).visited
        /\ pages' = CrawlReset(u).pages
        /\ url_queue' = CrawlReset(u).queue
        /\ enq_log' = << Item(u, 1, u) >>
    /\ start_time' = now
    /\ timed_out' = FALSE
    /\ fetch_log' = <<>>
    /\ result' = <<>>
    /\ pc' = "seed"
    /\ calls' = calls + 1
    /\ stale' = (url_queue # <<>>)
    /\ UNCHANGED << config, now, lock, workers >>

\* the first call of crawl on the object
CrawlStart == pc = "idle" /\ CrawlBegin(Seeds)

\* crawl called with the URL of a big page
CrawlBig == pc = "idle" /\ CrawlBegin(BigSeeds)

\* a later call of crawl on the same object, after the earlier one returned
CrawlAgain == pc = "done" /\ calls < MaxCalls /\ CrawlBegin(Seeds)

\* One pop followed by process_page.  In crawl (seed) an exception leaving
\* process_page appends the "Failed to load page" record; in crawl_worker it
\* is logged and the pause is skipped.  An exception none of the "except
\* Exception" clauses catches leaves crawl (pc = "raised").  sleep is the
\* pause made after process_page, next_pc where control goes then.
PopAndProcess(sleep, seed, next_pc) ==
    \E o \in Outcomes, d \in {0, MaxFetchTime} :
        LET item == Head(url_queue)
            r == process_page(item.url, item.depth, item.base_url, o,
                              [pages |-> pages, visited |-> visited_urls,
                               queue |-> Tail(url_queue), enq |-> enq_log])
        IN  /\ pc' = (IF r.raised # "none" /\ ~IsException(r.raised)
                      THEN "raised" ELSE next_pc)
            /\ pages' = (IF r.raised # "none" /\ IsException(r.raised) /\ seed
                         THEN Append(r.pages, FailedRecord(start_url))
                         ELSE r.pages)
            /\ visited_urls' = r.visited
            /\ url_queue' = r.queue
            /\ enq_log' = r.enq
            /\ fetch_log' = (IF r.sent
                             THEN Append(fetch_log, FetchEntry(item, o, r, now, now + d))
                             ELSE fetch_log)
            /\ now' = now + (IF r.sent THEN d ELSE 0)
                           + (IF r.raised # "none" THEN 0 ELSE sleep)

\* "url, depth, base_url = self.url_queue.get()" and the seed's process_page
ProcessSeed ==
    /\ pc = "seed"
    /\ PopAndProcess(0, TRUE, "loop")
    /\ UNCHANGED << config, calls, stale, lock, workers, start_url, start_time, timed_out, result >>

\* the head of "while not self.url_queue.empty() and len(self.pages) <
\* self.max_pages" in crawl, with its timeout check
LoopEnter ==
    /\ pc = "loop"
    /\ CrawlLoopCond
    /\ ~(now - start_time > timeout)
    /\ pc' = "worker"
    /\ UNCHANGED << config, calls, stale, lock, workers, visited_urls, pages, url_queue, start_url,
                    start_time, now, timed_out, fetch_log, enq_log, result >>

LoopTimeout ==
    /\ pc = "loop"
    /\ CrawlLoopCond
    /\ now - start_time > timeout
    /\ timed_out' = TRUE
    /\ pc' = "finish"
    /\ UNCHANGED << config, calls, stale, lock, workers, visited_urls, pages, url_queue, start_url,
                    start_time, now, fetch_log, enq_log, result >>

LoopExit ==
    /\ pc = "loop"
    /\ ~CrawlLoopCond
    /\ pc' = "finish"
    /\ UNCHANGED << config, calls, stale, lock, workers, visited_urls, pages, url_queue, start_url,
                    start_time, now, timed_out, fetch_log, enq_log, result >>

\* one iteration of crawl_worker's loop
WorkerStep ==
    /\ pc = "worker"
    /\ WorkerLoopCond
    /\ PopAndProcess(request_delay, FALSE, "worker")
    /\ UNCHANGED << config, calls, stale, lock, workers, start_url, start_time, timed_out, result >>

\* crawl_worker's loop condition is false: back to crawl's loop
WorkerReturn ==
    /\ pc = "worker"
    /\ ~WorkerLoopCond
    /\ pc' = "loop"
    /\ UNCHANGED << config, calls, stale, lock, workers, visited_urls, pages, url_queue, start_url,
                    start_time, now, timed_out, fetch_log, enq_log, result >>

\* the end of crawl: the fallback record and "return self.pages"
CrawlReturn ==
    /\ pc = "finish"
    /\ pages' = FinalPages(pages, start_url)
    /\ result' = FinalPages(pages, start_url)
    /\ pc' = "done"
    /\ UNCHANGED << config, calls, stale, lock, workers, visited_urls, url_queue, start_url, start_time,
                    now, timed_out, fetch_log, enq_log >>

Next ==
    \/ CrawlStart
    \/ ProcessSeed
    \/ LoopEnter
    \/ LoopTimeout
    \/ LoopExit
    \/ WorkerStep
    \/ WorkerReturn
    \/ CrawlReturn

Spec == Init /\ [][Next]_vars

\* ---- the link loop of process_page, statement by statement ----
\* crawl_worker is written to be run by several threads on one object; each
\* thread of ThreadSpec has fetched a page and runs the loop over its links.

\* "for link in links: if link_count >= 50: break"
LinkFor(w) ==
    /\ workers[w].pc = "for"
    /\ workers' = [workers EXCEPT ![w].pc =
                      IF workers[w].links = <<>> \/ CeilingReached(workers[w].link_count)
                      THEN "end" ELSE "outer"]
    /\ UNCHANGED << config, calls, stale, lock, visited_urls, pages, url_queue,
                    pc, start_url, start_time, now, timed_out, fetch_log,
                    enq_log, result >>

\* the test before "with self.lock"
LinkOuter(w) ==
    /\ workers[w].pc = "outer"
    /\ workers' = IF OuterCheck(Head(workers[w].links), visited_urls, Len(pages))
                  THEN [workers EXCEPT ![w].pc = "lock"]
                  ELSE [workers EXCEPT ![w].pc = "for",
                                       ![w].links = Tail(workers[w].links)]
    /\ UNCHANGED << config, calls, stale, lock, visited_urls, pages, url_queue,
                    pc, start_url, start_time, now, timed_out, fetch_log,
                    enq_log, result >>

\* "with self.lock:" is entered
LinkAcquire(w) ==
    /\ workers[w].pc = "lock"
    /\ lock = 0
    /\ lock' = w
    /\ workers' = [workers EXCEPT ![w].pc = "inner"]
    /\ UNCHANGED << config, calls, stale, visited_urls, pages, url_queue,
                    pc, start_url, start_time, now, timed_out, fetch_log,
                    enq_log, result >>

\* the test under the lock; when it fails the with-block is left
LinkInner(w) ==
    /\ workers[w].pc = "inner"
    /\ IF LockedCheck(Head(workers[w].links), visited_urls)
       THEN /\ workers' = [workers EXCEPT ![w].pc = "add"]
            /\ lock' = lock
       ELSE /\ workers' = [workers EXCEPT ![w].pc = "for",
                                           ![w].links = Tail(workers[w].links)]
            /\ lock' = 0
    /\ UNCHANGED << config, calls, stale, visited_urls, pages, url_queue,
                    pc, start_url, start_time, now, timed_out, fetch_log,
                    enq_log, result >>

\* "self.visited_urls.add(link)"
LinkAdd(w) ==
    /\ workers[w].pc = "add"
    /\ visited_urls' = visited_urls \cup {Head(workers[w].links)}
    /\ workers' = [workers EXCEPT ![w].pc = "put"]
    /\ UNCHANGED << config, calls, stale, lock, pages, url_queue,
                    pc, start_url, start_time, now, timed_out, fetch_log,
                    enq_log, result >>

\* "self.url_queue.put((link, depth + 1, base_url))", "link_count += 1", and
\* the with-block is left
LinkPut(w) ==
    /\ workers[w].pc = "put"
    /\ LET item == Item(Head(workers[w].links), workers[w].depth + 1, start_url)
       IN  /\ url_queue' = QueuePut(url_queue, item)
           /\ enq_log' = Append(enq_log, item)
    /\ workers' = [workers EXCEPT ![w].pc = "for",
                                  ![w].links = Tail(workers[w].links),
                                  ![w].link_count = workers[w].link_count + 1]
    /\ lock' = 0
    /\ UNCHANGED << config, calls, stale, visited_urls, pages,
                    pc, start_url, start_time, now, timed_out, fetch_log, result >>

\* The threads start after the seed was seeded and popped; each has fetched
\* one page of the site and extracted its links against the seed URL.
ThreadInit ==
    /\ max_depth = MaxDepthBound
    /\ max_pages = MaxPagesBound
    /\ request_delay = 0
    /\ timeout = 0
    /\ start_url \in Seeds
    /\ visited_urls = {start_url}
    /\ pages = <<>>
    /\ url_queue = <<>>
    /\ enq_log = << Item(start_url, 1, start_url) >>
    /\ pc = "threads"
    /\ start_time = 0 /\ now = 0
    /\ timed_out = FALSE
    /\ fetch_log = <<>>
    /\ result = <<>>
    /\ calls = 1
    /\ stale = FALSE
    /\ lock = 0
    /\ workers \in [Workers ->
          { [pc |-> "for",
             depth |-> IF u = start_url THEN 1 ELSE 2,
             links |-> extract_links(start_url, Anchors(u)),
             link_count |-> 0] : u \in SiteURLs }]

ThreadNext ==
    \E w \in Workers :
        \/ LinkFor(w)
        \/ LinkOuter(w)
        \/ LinkAcquire(w)
        \/ LinkInner(w)
        \/ LinkAdd(w)
        \/ LinkPut(w)

ThreadSpec == ThreadInit /\ [][ThreadNext]_vars

\* The seed's process_page on a page with about LinkCeiling links, also
\* with a page cap above the ceiling.
CeilingInit == InitWith((1..MaxPagesBound) \cup {LinkCeiling + MaxExtraLinks})

CeilingNext == CrawlBig \/ ProcessSeed

CeilingSpec == CeilingInit /\ [][CeilingNext]_vars

\* A crawl whose page cap is above the number of pages of the site.
RoomyInit == InitWith({MaxPagesBound + 1})

RoomySpec == RoomyInit /\ [][Next]_vars

\* The same object used for several crawls, one after the other.
ReuseInit ==
    /\ Init
    /\ max_depth <= ReuseDepthBound
    /\ max_pages <= ReusePagesBound
    /\ request_delay = 0
    /\ timeout = 0

ReuseNext == Next \/ CrawlAgain

ReuseSpec == ReuseInit /\ [][ReuseNext]_vars

\* ------------------------------------------------------------ properties
Indices(s) == 1..Len(s)

URLsOf(s) == { s[i].url : i \in Indices(s) }

\* the call of process_page logged in e got a response and appended a record
GotRecord(e) ==
    /\ Fetch(e.outcome).status = "response"
    /\ ~e.outcome.html.title_raises

\* the absolute URLs the anchors of the page at u point to
TargetsOf(u) == { urljoin(u, Anchors(u)[i]) : i \in Indices(Anchors(u)) }

\* C1: the list crawl returns has at least one and at most max_pages records,
\* whatever failed during the crawl.
C1_ResultBounded ==
    /\ Len(pages) <= max_pages
    /\ pc = "done" => (1 <= Len(result) /\ Len(result) <= max_pages)

\* a crawl whose only request failed returned one record
C1_Witness ==
    /\ pc = "done" /\ Len(fetch_log) = 1 /\ ~GotRecord(fetch_log[1])
    /\ Len(result) = 1

\* C2: no two records of a result have the same URL once query and fragment
\* are stripped, the seed's record included.
C2_NoCanonicalDuplicates ==
    pc = "done" =>
        \A i, j \in Indices(result) :
            i # j => clean_url(result[i].url) # clean_url(result[j].url)

\* C3: no request is started once more than timeout has passed since the
\* start of the crawl.
C3_NoFetchAfterTimeout ==
    \A i \in Indices(fetch_log) : ~(fetch_log[i].at - start_time > timeout)

\* C4: every item ever enqueued, waiting or fetched has 1 <= depth <=
\* max_depth; an item is enqueued at its finder's depth plus one, so a fetch
\* at max_depth enqueues nothing.
C4_DepthBounded ==
    /\ \A i \in Indices(url_queue) :
           1 <= url_queue[i].depth /\ url_queue[i].depth <= max_depth
    /\ \A i \in Indices(enq_log) :
           1 <= enq_log[i].depth /\ enq_log[i].depth <= max_depth
    /\ \A i \in Indices(fetch_log) :
           1 <= fetch_log[i].depth /\ fetch_log[i].depth <= max_depth

\* the last page fetched was at max_depth, below the seed, its links were
\* parsed, one of them was new and the page cap had room: nothing was enqueued
C4_Witness ==
    /\ Len(fetch_log) >= 2
    /\ LET e == fetch_log[Len(fetch_log)]
       IN  /\ e.depth = max_depth
           /\ GotRecord(e) /\ ~e.outcome.html.links_raise
           /\ Len(pages) < max_pages
           /\ \E t \in TargetsOf(e.url) :
                  /\ t.netloc = start_url.netloc
                  /\ clean_url(t) \notin visited_urls

\* C5: every URL enqueued, fetched or recorded has the netloc of the start
\* URL.
C5_SameHost ==
    pc # "idle" =>
        /\ \A i \in Indices(url_queue) : url_queue[i].url.netloc = start_url.netloc
        /\ \A i \in Indices(enq_log) : enq_log[i].url.netloc = start_url.netloc
        /\ \A i \in Indices(fetch_log) : fetch_log[i].url.netloc = start_url.netloc
        /\ \A i \in Indices(pages) : pages[i].url.netloc = start_url.netloc
        /\ \A i \in Indices(result) : result[i].url.netloc = start_url.netloc

\* a page with a link to another host and a link without host had its links
\* extracted and enqueued
C5_Witness ==
    /\ Len(enq_log) >= 2
    /\ \E i \in Indices(fetch_log) :
        LET e == fetch_log[i]
        IN  /\ GotRecord(e) /\ ~e.outcome.html.links_raise
            /\ e.depth < max_depth
            /\ \E t \in TargetsOf(e.url) : t.netloc = OtherHost
            /\ \E t \in TargetsOf(e.url) : t.netloc = ""

\* C6: when the request for the seed fails with a network error, the result
\* is one record for the start URL with a diagnostic title and a content
\* that mentions the error.
DiagnosticTitles == {"Failed to load page", "Crawl failed", "No content found"}

MentionsError(content) ==
    content \in {"Unable to crawl this page. Error: {e}",
                 "Unable to crawl this website. Error: {e}"}

C6_SeedFailureRecord ==
    (/\ pc = "done"
     /\ Len(fetch_log) >= 1
     /\ fetch_log[1].outcome.first = "ConnectionError")
    => /\ Len(result) = 1
       /\ result[1].url = start_url
       /\ result[1].title \in DiagnosticTitles
       /\ MentionsError(result[1].content)

\* C7: the content of every record is a non-empty string.
C7_ContentNonEmpty ==
    /\ \A i \in Indices(pages) : pages[i].content # ""
    /\ \A i \in Indices(result) : result[i].content # ""

\* a page whose extraction gave nothing is in the result with the placeholder
C7_Witness ==
    /\ pc = "done"
    /\ \E i \in Indices(fetch_log) :
        /\ GotRecord(fetch_log[i])
        /\ fetch_log[i].outcome.html.trafilatura = NoneVal
        /\ fetch_log[i].outcome.html.soup_text = ""
        /\ \E j \in Indices(result) :
            /\ result[j].url = fetch_log[i].url
            /\ result[j].content = "Unable to extract text content from {url}"

\* the seed has a link to a page of its own host other than itself
HasSameDomainLinks(u) ==
    \E t \in TargetsOf(u) : t.netloc = u.netloc /\ clean_url(t) # u

\* C8: with max_pages = 1 and a seed that was fetched and recorded, nothing
\* but the seed is ever enqueued or fetched and the result is the seed's
\* record alone.
C8_SinglePage ==
    (/\ max_pages = 1
     /\ Len(fetch_log) >= 1
     /\ GotRecord(fetch_log[1]))
    => /\ Len(enq_log) = 1 /\ enq_log[1].url = start_url
       /\ Len(fetch_log) = 1 /\ fetch_log[1].url = start_url
       /\ url_queue = <<>>
       /\ pc = "done" =>
            /\ Len(result) = 1
            /\ result[1].url = start_url
            /\ result[1].title = PageTitle(fetch_log[1].outcome.html)

\* such a crawl of a seed with same-domain links, its links parsed, returned
C8_Witness ==
    /\ max_pages = 1 /\ max_depth >= 2 /\ pc = "done"
    /\ Len(fetch_log) = 1 /\ GotRecord(fetch_log[1])
    /\ ~fetch_log[1].outcome.html.links_raise
    /\ HasSameDomainLinks(start_url)
    /\ Len(result) = 1

\* the canonical URLs of the same-domain pages the seed links to, and the
\* cross-domain (or host-less) URLs it links to
SameDomainPages(u) ==
    { clean_url(t) : t \in { x \in TargetsOf(u) : x.netloc = u.netloc } }

CrossDomainPages(u) == { t \in TargetsOf(u) : t.netloc # u.netloc }

\* every call of process_page so far got a response and parsed it
AllFetchesSucceeded ==
    \A i \in Indices(fetch_log) :
        GotRecord(fetch_log[i]) /\ ~fetch_log[i].outcome.html.links_raise

\* C9: with max_depth = 2, max_pages above the number of pages, every fetch
\* succeeding and no timeout, the result holds the seed and each same-domain
\* page the seed links to, and no cross-domain page.
C9_DepthTwoScenario ==
    (/\ pc = "done"
     /\ max_depth = 2
     /\ max_pages > Cardinality(SameDomainPages(start_url) \cup {start_url})
     /\ AllFetchesSucceeded
     /\ ~timed_out)
    => /\ URLsOf(result) = SameDomainPages(start_url) \cup {start_url}
       /\ \A t \in CrossDomainPages(start_url) :
              t \notin URLsOf(result) /\ clean_url(t) \notin URLsOf(result)

\* the scenario on a seed with two same-domain and two other links
C9_Witness ==
    /\ pc = "done" /\ max_depth = 2 /\ ~timed_out /\ AllFetchesSucceeded
    /\ max_pages > Cardinality(SameDomainPages(start_url) \cup {start_url})
    /\ Cardinality(SameDomainPages(start_url) \ {start_url}) >= 2
    /\ Cardinality(CrossDomainPages(start_url)) >= 2
    /\ Len(result) = 3

\* the page has text an extraction strategy can find
HasText(html) ==
    /\ ~html.text_raises
    /\ \/ html.trafilatura \notin {NoneVal, ""}
       \/ html.trafilatura = NoneVal /\ html.soup_text # ""

\* C10: a seed without links whose fetch succeeds, and whose page has text,
\* gives a result of one record: the seed with the text of the page.
C10_LeafSeed ==
    (/\ pc = "done"
     /\ Anchors(start_url) = <<>>
     /\ GotRecord(fetch_log[1])
     /\ HasText(fetch_log[1].outcome.html))
    => /\ Len(result) = 1
       /\ result[1].url = start_url
       /\ result[1].content \in {fetch_log[1].outcome.html.trafilatura,
                                 fetch_log[1].outcome.html.soup_text}
       /\ result[1].content \notin {NoneVal, "",
                                    "Unable to extract text content from {url}",
                                    "No content could be extracted from this website."}

\* such a crawl, the text being found by the fallback strategy
C10_Witness ==
    /\ pc = "done"
    /\ Anchors(start_url) = <<>>
    /\ GotRecord(fetch_log[1])
    /\ fetch_log[1].outcome.html.trafilatura = NoneVal
    /\ fetch_log[1].outcome.html.soup_text # ""
    /\ Len(result) = 1

\* a request (or its one retry) failed
RequestFailed(o) ==
    \/ o.first \notin {"none", "SSLError"}
    \/ o.first = "SSLError" /\ o.retry # "none"

\* C11: crawl never ends by raising: whatever fails inside, it returns its
\* page list.
C11_NeverRaises ==
    /\ pc # "raised"
    /\ pc = "done" => (result = pages /\ result # <<>>)

\* a crawl returned after a failed TLS retry and a parser exception
C11_Witness ==
    /\ pc = "done"
    /\ \E i \in Indices(fetch_log) :
           fetch_log[i].outcome.first = "SSLError" /\ fetch_log[i].outcome.retry = "SSLError"
    /\ \E i \in Indices(fetch_log) :
           /\ ~RequestFailed(fetch_log[i].outcome)
           /\ fetch_log[i].outcome.html.title_raises

\* The work left: the items waiting plus the URLs of the site not yet
\* accepted.  Every pop takes one off; a link accepted into the frontier
\* leaves the second set as it joins the first.
WorkLeft == Len(url_queue) + Cardinality(SiteURLs \ visited_urls)

\* A measure in Nat of how far crawl is from returning.
Rank ==
    IF pc = "idle" THEN 5 * (Cardinality(SiteURLs) + 2)
    ELSE 5 * WorkLeft +
         (IF pc = "seed" THEN 4
          ELSE IF pc = "loop" /\ CrawlLoopCond THEN 4
          ELSE IF pc = "worker" THEN 3
          ELSE IF pc = "loop" THEN 2
          ELSE IF pc = "finish" THEN 1
          ELSE 0)

\* C12: every crawl returns.  Until it has returned a step can be taken, and
\* every step brings the measure Rank down, so the loop cannot go on for
\* ever; when crawl leaves its loop the frontier is empty, the page cap is
\* reached or the timeout branch was taken.
C12_Terminates ==
    /\ [](pc # "done" => ENABLED Next)
    /\ [][Rank' < Rank /\ Rank' >= 0]_vars
    /\ [](pc \in {"finish", "done"} =>
            (url_queue = <<>> \/ Len(pages) >= max_pages \/ timed_out))

\* a crawl returned at the page cap with items left in the frontier
C12_Witness ==
    /\ pc = "done" /\ ~timed_out
    /\ url_queue # <<>> /\ Len(pages) >= max_pages
    /\ Len(fetch_log) >= 2

\* C13: nothing of an earlier crawl is left when crawl is called again: the
\* call starts from the seed item alone, the visited-set {start_url} and an
\* empty page list, and from then on the frontier, the visited-set and the
\* pages hold only what this crawl enqueued and fetched.
C13_FreshStart ==
    /\ pc = "seed" =>
        /\ url_queue = << Item(start_url, 1, start_url) >>
        /\ visited_urls = {start_url}
        /\ pages = <<>>
    /\ pc \notin {"idle", "seed"} =>
        /\ visited_urls = URLsOf(enq_log)
        /\ \A i \in Indices(url_queue) : url_queue[i] \in { enq_log[j] : j \in Indices(enq_log) }
        /\ \A i \in Indices(pages) :
               pages[i].url \in URLsOf(fetch_log) \cup {start_url}
        /\ Len(pages) <= Len(fetch_log) + 1

\* a second crawl has started on an object whose earlier crawl stopped with
\* items left in its frontier
C13_Witness ==
    /\ calls = 2 /\ stale
    /\ pc = "loop"

\* C14: a URL is enqueued at most once per crawl, whatever the interleaving
\* of the threads that discover it; every URL in the frontier is in the
\* visited-set; and the visited-set holds the enqueued URLs plus at most the
\* one URL that the holder of the lock has added and is about to enqueue.
C14_EnqueuedOnce ==
    /\ \A i, j \in Indices(enq_log) : enq_log[i].url = enq_log[j].url => i = j
    /\ \A i \in Indices(url_queue) : url_queue[i].url \in visited_urls
    /\ URLsOf(enq_log) \subseteq visited_urls
    /\ Cardinality(visited_urls \ URLsOf(enq_log)) <= 1
    /\ \A w \in Workers : workers[w].pc \in {"inner", "add", "put"} => lock = w

\* one thread has enqueued a link while another, which had passed the test
\* outside the lock for the same link, waits for the lock
C14_Witness ==
    \E w \in Workers :
        /\ workers[w].pc = "lock"
        /\ Head(workers[w].links) \in { url_queue[i].url : i \in Indices(url_queue) }

\* C15: between the end of a fetch and the start of the next fetch of the
\* same crawl, the seed fetch included, at least request_delay passes.
C15_DelayAfterEachFetch ==
    \A i \in Indices(fetch_log) :
        i >= 2 => fetch_log[i].at >= fetch_log[i - 1].ended + request_delay

\* the part of C15 that the code keeps: the pause follows every fetch made
\* by crawl_worker
C15_DelayAfterWorkerFetch ==
    \A i \in Indices(fetch_log) :
        i >= 3 => fetch_log[i].at >= fetch_log[i - 1].ended + request_delay

\* C16: in a state whose page list holds max_pages records no request is
\* issued and no link is enqueued, and the step that appends the record
\* number max_pages enqueues none of that page's links.
C16_NoFetchAtCap ==
    [][ /\ Len(pages) >= max_pages =>
            (fetch_log' = fetch_log /\ enq_log' = enq_log)
        /\ Len(pages') >= max_pages => enq_log' = enq_log ]_vars

\* crawl has left its loops at the cap with enqueued items never fetched,
\* the last fetch being the one that filled the page list
C16_Witness ==
    /\ pc = "finish"
    /\ Len(pages) = max_pages
    /\ url_queue # <<>>
    /\ Len(fetch_log) >= 2
    /\ Len(fetch_log) < Len(enq_log)
    /\ GotRecord(fetch_log[Len(fetch_log)])

\* the entry a step has just appended to fetch_log
Last(log) == log[Len(log)]

\* the step is one process_page call made by crawl_worker
WorkerFetched == fetch_log' # fetch_log /\ fetch_log # <<>>

ExtractionFailed(o) ==
    /\ ~RequestFailed(o)
    /\ o.html.text_raises \/ o.html.title_raises \/ o.html.links_raise

\* C17 as stated: whatever fails for a non-seed item, a request or a step of
\* extraction, the item appends no record and leaves pages and visited_urls
\* as they were.
C17_AnyFailureNoRecord ==
    [][ WorkerFetched =>
          LET o == Last(fetch_log').outcome
          IN  (RequestFailed(o) \/ ExtractionFailed(o)) =>
                  (pages' = pages /\ visited_urls' = visited_urls) ]_vars

\* C17, amended: a failed request or an exception of title extraction for a
\* non-seed item appends no record, leaves pages and visited_urls unchanged,
\* removes only that item from the frontier and returns to crawl_worker's
\* loop; an exception of text extraction gives a record with the placeholder
\* content; an exception of link parsing keeps the record and enqueues
\* nothing.
C17_FailureRecovered ==
    [][ WorkerFetched =>
          LET o == Last(fetch_log').outcome
          IN  /\ (RequestFailed(o) \/ (~RequestFailed(o) /\ o.html.title_raises)) =>
                    /\ pages' = pages
                    /\ visited_urls' = visited_urls
                    /\ url_queue' = Tail(url_queue)
                    /\ enq_log' = enq_log
                    /\ pc' = "worker"
              /\ (~RequestFailed(o) /\ ~o.html.title_raises /\ o.html.text_raises) =>
                    /\ Len(pages') = Len(pages) + 1
                    /\ Last(pages').url = Head(url_queue).url
                    /\ Last(pages').content = PageContent("")
                    /\ pc' = "worker"
              /\ (~RequestFailed(o) /\ ~o.html.title_raises /\ o.html.links_raise) =>
                    /\ Len(pages') = Len(pages) + 1
                    /\ visited_urls' = visited_urls
                    /\ url_queue' = Tail(url_queue)
                    /\ enq_log' = enq_log
                    /\ pc' = "worker" ]_vars

\* after a failed request for a non-seed item, which left no record, a later
\* item of the frontier was fetched; its text extraction and its link
\* parsing raised, and it was recorded with the placeholder content
C17_Witness ==
    \E i, k \in Indices(fetch_log) :
        /\ 2 <= i /\ i < k
        /\ RequestFailed(fetch_log[i].outcome)
        /\ fetch_log[i].url \notin URLsOf(pages)
        /\ fetch_log[k].outcome = Outcome("none", "none", BadLinksHtml)
        /\ \E n \in Indices(pages) :
               /\ pages[n].url = fetch_log[k].url
               /\ pages[n].content = PageContent("")

\* C18: no URL is fetched twice in one crawl and no two records of the page
\* list, or of the returned list, carry the same URL.
C18_OncePerURL ==
    /\ \A i, j \in Indices(fetch_log) : fetch_log[i].url = fetch_log[j].url => i = j
    /\ \A i, j \in Indices(pages) : pages[i].url = pages[j].url => i = j
    /\ \A i, j \in Indices(result) : result[i].url = result[j].url => i = j

\* a crawl returned after it fetched the seed and a page that links back to
\* the seed, at a depth where that link was considered
C18_Witness ==
    /\ pc = "done"
    /\ max_depth >= 3
    /\ \E i, j \in Indices(fetch_log) :
           /\ i < j
           /\ fetch_log[i].url = start_url
           /\ GotRecord(fetch_log[j])
           /\ fetch_log[j].depth < max_depth
           /\ start_url \in TargetsOf(fetch_log[j].url)

\* C19: every link a step enqueues is an href of the fetched page joined
\* with that page's own URL.
C19_ResolvedAgainstPage ==
    [][ (fetch_log' # fetch_log /\ fetch_log # <<>>) =>
          LET page == Head(url_queue).url
          IN  \A k \in Indices(enq_log') :
                  k > Len(enq_log) =>
                      enq_log'[k].url \in
                          { clean_url(urljoin(page, Anchors(page)[i])) :
                                i \in Indices(Anchors(page)) } ]_vars

\* C20: an item gets one request, or two when the first one failed with an
\* SSLError and never more; an item whose only request or whose retry failed
\* has no record of its own.
C20_RetryOnce ==
    \A i \in Indices(fetch_log) :
        LET e == fetch_log[i]
        IN  /\ e.requests = (IF e.outcome.first = "SSLError" THEN 2 ELSE 1)
            /\ RequestFailed(e.outcome) =>
                   \A n \in Indices(pages) :
                       pages[n].url = e.url => pages[n].title \in DiagnosticTitles

\* one crawl met an SSLError answered by a successful retry, an SSLError
\* whose retry failed with an SSLError, and a connection error
C20_Witness ==
    \E i, j, k \in Indices(fetch_log) :
        /\ fetch_log[i].outcome = Outcome("SSLError", "none", GoodHtml)
        /\ fetch_log[i].requests = 2
        /\ fetch_log[i].url \in URLsOf(pages)
        /\ fetch_log[j].outcome = Outcome("SSLError", "SSLError", GoodHtml)
        /\ fetch_log[j].requests = 2
        /\ fetch_log[j].url \notin URLsOf(pages)
        /\ fetch_log[k].outcome = Outcome("ConnectionError", "none", GoodHtml)
        /\ fetch_log[k].requests = 1

\* C21: one process_page call enqueues at most LinkCeiling links, however
\* many anchors the page has and whatever max_pages is.
C21_LinkCeiling ==
    [][Len(enq_log') <= Len(enq_log) + LinkCeiling]_vars

\* a page with more than LinkCeiling new links was processed under a page
\* cap above the ceiling, and LinkCeiling of its links were enqueued
C21_Witness ==
    /\ pc = "loop"
    /\ max_pages > LinkCeiling
    /\ Len(Anchors(start_url)) > LinkCeiling + 1
    /\ Len(enq_log) = 1 + LinkCeiling
    /\ Len(url_queue) = LinkCeiling

\* the statements of the link loop that read or write visited_urls, pages
\* or url_queue: the test before the lock, the test under it, add and put
AccessingShared == {"outer", "inner", "add", "put"}

\* C22: a thread executes a statement that reads or writes visited_urls,
\* url_queue or pages only while it holds the lock.
C22_AccessUnderLock ==
    [][ \A w \in Workers :
          (workers'[w] # workers[w] /\ workers[w].pc \in AccessingShared) =>
              lock = w ]_vars

\* what the code keeps of C22 in the link loop: visited_urls and url_queue
\* are written only by the thread that holds the lock
C22_WritesUnderLock ==
    [][ (visited_urls' # visited_urls \/ url_queue' # url_queue) =>
          (lock # 0 /\ workers'[lock] # workers[lock]) ]_vars

\* fetches i and j were in flight at the same time
Overlap(i, j) ==
    /\ i # j
    /\ fetch_log[i].at < fetch_log[j].ended
    /\ fetch_log[j].at < fetch_log[i].ended

\* C23: more than one worker serves the frontier: when two items enqueued by
\* the seed's page are fetched one after the other and the first fetch takes
\* time, the second is started before the first has ended.
C23_ConcurrentFetches ==
    \A i \in Indices(fetch_log) :
        ( /\ i >= 2 /\ i + 1 <= Len(fetch_log)
          /\ fetch_log[i].depth = 2 /\ fetch_log[i + 1].depth = 2
          /\ fetch_log[i].at < fetch_log[i].ended )
        => Overlap(i, i + 1)

\* what the code does instead of C23: crawl runs crawl_worker itself, so no
\* two fetches of a crawl are ever in flight at the same time
C23_OneAtATime ==
    \A i, j \in Indices(fetch_log) : ~Overlap(i, j)

\* C24: every item ever enqueued, the seed's included, carries the start
\* URL of the crawl as its base_url, and every enqueued URL is on the host of
\* the start URL.
C24_BaseURLIsSeed ==
    /\ \A i \in Indices(enq_log) :
           /\ enq_log[i].base_url = start_url
           /\ enq_log[i].url.netloc = start_url.netloc
    /\ \A i \in Indices(url_queue) : url_queue[i].base_url = start_url
    /\ \A i \in Indices(fetch_log) : fetch_log[i].base_url = start_url

\* an item of depth 3, found on a page that is not the seed, was enqueued
\* with the seed as its base_url
C24_Witness ==
    \E i \in Indices(enq_log) :
        /\ enq_log[i].depth = 3
        /\ enq_log[i].base_url = start_url
        /\ enq_log[i].url # start_url
        /\ \E j \in Indices(fetch_log) :
               /\ fetch_log[j].depth = 2
               /\ fetch_log[j].url # start_url
               /\ enq_log[i].url \in
                      { clean_url(urljoin(start_url, Anchors(fetch_log[j].url)[k])) :
                            k \in Indices(Anchors(fetch_log[j].url)) }

\* the seed's process_page left no record
SeedFailed ==
    /\ fetch_log # <<>>
    /\ \/ RequestFailed(fetch_log[1].outcome)
       \/ fetch_log[1].outcome.html.title_raises

\* C25: the first record of the page list and of the result is for the
\* start URL, and when the seed's fetch fails no other URL is fetched and
\* the result is the one synthesized record.
C25_FirstRecordIsSeed ==
    /\ pages # <<>> => pages[1].url = start_url
    /\ pc = "done" => (result # <<>> /\ result[1].url = start_url)
    /\ SeedFailed => Len(fetch_log) = 1
    /\ (pc = "done" /\ SeedFailed) => Len(result) = 1

\* crawl returned after the retry of the seed's request failed, with room
\* for more pages: one request pair, one synthesized record for the seed
C25_Witness ==
    /\ pc = "done"
    /\ max_depth >= 2 /\ max_pages >= 2
    /\ start_url.query # ""
    /\ fetch_log[1].outcome = Outcome("SSLError", "SSLError", GoodHtml)
    /\ Len(fetch_log) = 1
    /\ result[1].url = start_url
    /\ result[1].title = "No content found"

\* the depth at which the page of record rec was fetched
DepthOf(rec) ==
    IF \E i \in Indices(fetch_log) : fetch_log[i].url = rec.url
    THEN LET i == CHOOSE i \in Indices(fetch_log) : fetch_log[i].url = rec.url
         IN  fetch_log[i].depth
    ELSE 1

\* C26: items are fetched one at a time in the order they were enqueued,
\* the frontier holding the rest in that order, and so the depths of the
\* fetched items, of the waiting items and of the records are
\* non-decreasing.
C26_FifoLevelOrder ==
    /\ Len(fetch_log) <= Len(enq_log)
    /\ \A i \in Indices(fetch_log) : fetch_log[i].url = enq_log[i].url
    /\ pc \notin {"idle", "raised"} =>
           url_queue = SubSeq(enq_log, Len(fetch_log) + 1, Len(enq_log))
    /\ \A i, j \in Indices(fetch_log) :
           i < j => fetch_log[i].depth <= fetch_log[j].depth
    /\ \A i, j \in Indices(enq_log) :
           i < j => enq_log[i].depth <= enq_log[j].depth
    /\ \A i, j \in Indices(pages) :
           i < j => DepthOf(pages[i]) <= DepthOf(pages[j])
    /\ \A i, j \in Indices(result) :
           i < j => DepthOf(result[i]) <= DepthOf(result[j])

\* a crawl returned records of depth 1, 2 and 3, with an item of depth 2
\* fetched after the page that enqueued the item of depth 3
C26_Witness ==
    /\ pc = "done"
    /\ Len(result) >= 4
    /\ DepthOf(result[1]) = 1
    /\ DepthOf(result[2]) = 2
    /\ DepthOf(result[3]) = 2
    /\ DepthOf(result[Len(result)]) = 3

\* the URLs within the given number of link hops of the URLs of S, each
\* link joined with the URL of its page, canonicalized, same host only
RECURSIVE ReachWithin(_, _)
ReachWithin(S, hops) ==
    IF hops = 0 THEN S
    ELSE ReachWithin(S \cup UNION { SameDomainPages(u) : u \in S }, hops - 1)

\* C27: when every fetch succeeded, the pages within max_depth hops of the
\* seed are fewer than max_pages and the timeout branch was not taken, the
\* URLs of the result are the seed and the same-host URLs within
\* max_depth - 1 hops of it.
C27_Complete ==
    (/\ pc = "done"
     /\ AllFetchesSucceeded
     /\ ~timed_out
     /\ Cardinality(ReachWithin({start_url}, max_depth)) < max_pages)
    => URLsOf(result) = ReachWithin({start_url}, max_depth - 1)

\* what the code returns in the case of C27: the closure under links joined
\* with the seed URL
RECURSIVE ReachFromSeed(_, _)
ReachFromSeed(S, hops) ==
    IF hops = 0 THEN S
    ELSE ReachFromSeed(
             S \cup { clean_url(l) :
                        l \in { x \in UNION { { urljoin(start_url, Anchors(u)[i]) :
                                                  i \in Indices(Anchors(u)) } : u \in S } :
                                  is_valid_url(x, start_url) } },
             hops - 1)

C27_CompleteFromSeed ==
    (/\ pc = "done"
     /\ AllFetchesSucceeded
     /\ ~timed_out
     /\ Cardinality(ReachFromSeed({start_url}, max_depth)) < max_pages)
    => URLsOf(result) = ReachFromSeed({start_url}, max_depth - 1)

====
